---- MODULE Spec2Model ----
(***************************************************************************)
(* Model of vit_prisma/sae/evals/evaluator.py (class Evaluator).           *)
(*                                                                         *)
(*  SpecRank  : the ranking pass of Evaluator.plot_log_frequencies, the    *)
(*              body of the per-feature loop (lines 340-399) run once per  *)
(*              batch for one tracked feature.  Every iteration of that    *)
(*              loop reads and writes only max_indices[feature_id] and     *)
(*              max_values[feature_id], so one feature's slot is modelled. *)
(*  SpecStats : the statistics pass Evaluator.process_dataset (108-237).   *)
(*  SpecActs  : the L0 statistics of process_dataset (162-171, 213-215)    *)
(*              computed on the feature activations themselves.            *)
(*  SpecEval  : one call of Evaluator.evaluate (90-106) with eval_mode,    *)
(*              the statistics pass, save_stats and the dispatch loop.     *)
(*  SpecSample: the bin sampling of plot_log_frequencies (286-320) and the *)
(*              labelling of its figures (404-495).                        *)
(*  SpecPasses: process_dataset followed by the batch loop of              *)
(*              plot_log_frequencies (324-402) over the same dataloader.   *)
(*  SpecTop   : Evaluator.find_top_activations_for_neurons (537-602) for   *)
(*              one neuron.                                                *)
(*                                                                         *)
(* Activation values are floats in the code; the model uses naturals as    *)
(* ranks of positive values; 0 is 0.0, the seed of the amax reduction.     *)
(***************************************************************************)
EXTENDS Integers, Sequences, FiniteSets

\* ---------------------------------------------------------------- bounds
NumIds == 2
MaxVal == 2
MaxBatchLen == 2
MaxK == 2
MaxDataset == 6
MaxBatchSize == 3
MaxEval == 5
MaxRunData == 2
MaxFuncs == 3
MaxFeat == 2
MaxImages == 2
MaxBinned == 3
MaxSamples == 2
MaxPassData == 3
MaxTopK == 3

\* the ranker scenario of the specification (section 8): (0.5, id 1),
\* (0.9, id 2), (0.7, id 3), the values as ranks 1 < 2 < 3
ScenarioPairs ==
    {[image |-> 1, value |-> 1], [image |-> 2, value |-> 3], [image |-> 3, value |-> 2]}

Ids == (1..NumIds) \cup {p.image : p \in ScenarioPairs}
Vals == (1..MaxVal) \cup {p.value : p \in ScenarioPairs}

VARIABLES
    \* ---- ranking pass (plot_log_frequencies) ----
    max_images_per_feature, \* evaluation_cfg.max_images_per_feature (K)
    max_is_none,            \* max_indices[feature_id] is None
    max_indices,            \* max_indices[feature_id], a sequence of example ids
    max_values,             \* max_values[feature_id], aligned with max_indices
    merge_kind,             \* which branch the last batch took (363 / 387 / 397)
    observe,                \* what a run records besides the program state:
                            \* "merge" (the last merge) or "history" (all submissions)
    unique_all_indices,     \* merge: the last merge's deduplicated union of ids (376)
    unique_all_values,      \* merge: the last merge's per-id maxima (379-384)
    resubmitted,            \* merge: the last batch held only pairs of retained ids
                            \* whose value did not exceed the retained value
    sub_max,                \* history: largest value submitted so far per id, -1 if none
    raised                  \* history: ids submitted again with a strictly larger value

rankVars == <<max_images_per_feature, max_is_none, max_indices, max_values,
              merge_kind, observe, unique_all_indices, unique_all_values,
              resubmitted, sub_max, raised>>

VARIABLES
    \* ---- statistics pass (process_dataset) ----
    dataset_len,            \* len(self.data): examples the dataloader will yield
    dl_batch_size,          \* batch_size of self.dataloader (line 66)
    max_evaluation_images,  \* evaluation_cfg.max_evaluation_images
    stats_pc,               \* position in process_dataset
    cursor,                 \* examples the dataloader has yielded so far
    n_batches,              \* batches the dataloader has yielded so far
    batch_size,             \* batch_tokens.shape[0] of the batch in hand (139)
    total_samples, total_tokens, total_acts,
    all_l0, all_l0_cls, all_l0_image, all_cosine_similarity,
    total_loss, total_reconstruction_loss, total_zero_abl_loss,
    ended_by,               \* how the batch loop ended: "break" or "exhausted"
    stats                   \* the returned EvalStats

statsVars == <<dataset_len, dl_batch_size, max_evaluation_images, stats_pc, cursor,
               n_batches, batch_size, total_samples, total_tokens, total_acts,
               all_l0, all_l0_cls, all_l0_image, all_cosine_similarity,
               total_loss, total_reconstruction_loss, total_zero_abl_loss,
               ended_by, stats>>

VARIABLES
    \* ---- one call of evaluate (lines 90-106) ----
    context,                \* the context argument of the call
    evaluation_cfg,         \* self._evaluation_cfg: which configuration is selected
    evaluation_functions,   \* evaluation_functions of the configuration in use
    training,               \* sae.training
    was_training,           \* sae.training when evaluate was called
    is_train,               \* the local of eval_mode (line 42)
    eval_pc,                \* position in evaluate
    exception,              \* the exception in flight or raised by the call
    stats_file,             \* content of <sae_path>_stats.json, <<>> when not written
    wandb_logged,           \* what wandb.log received, <<>> when not called
    func_pos,               \* entries of evaluation_functions the loop has taken
    ran,                    \* list positions whose function was called, in call order
    warnings                \* list positions reported as not implemented, in order

evalVars == <<context, evaluation_cfg, evaluation_functions, training, was_training,
              is_train, eval_pc, exception, stats_file, wandb_logged, func_pos,
              ran, warnings>>

VARIABLES
    \* ---- feature activations of the statistics pass (lines 153-171) ----
    n_tokens,               \* feature_acts.shape[1], class token included
    d_sae,                  \* feature_acts.shape[2]
    only_scenario,          \* every batch ingested so far was the scenario batch
    positives               \* per image ingested: its entries that are > 0

actsVars == <<n_tokens, d_sae, only_scenario, positives>>

VARIABLES
    \* ---- feature sampling and display of plot_log_frequencies (286-418) ----
    log_freq_tokens,               \* log frequency of every feature (271)
    samples_per_bin,               \* evaluation_cfg.samples_per_bin
    sample_mode,                   \* what a run does after sampling: "display"
                                   \* (go on to the display loop) or "repeat"
                                   \* (sample a second time from the same input)
    sample_pc,                     \* position in plot_log_frequencies
    bin_idx,                       \* bins the sampling loop has taken (292)
    interesting_features_indices, interesting_features_values,
    interesting_features_category,
    first_run_indices,             \* repeat: what the first sampling returned
    top_per_feature_keys,          \* keys of top_per_feature in dict order (404-407)
    artifacts                      \* (feature, category, log frequency) of every
                                   \* figure saved (410-495)

sampleVars == <<log_freq_tokens, samples_per_bin, sample_mode, sample_pc, bin_idx,
                interesting_features_indices, interesting_features_values,
                interesting_features_category, first_run_indices,
                top_per_feature_keys, artifacts>>

VARIABLES
    \* ---- batch loop of the ranking pass after process_dataset (324-402) ----
    cfg_batch_size,                \* evaluation_cfg.batch_size
    rank_pc,                       \* position in the ranking loop
    batch_idx,                     \* enumerate index of the batch in hand
    rank_cursor,                   \* examples the dataloader has yielded to the loop
    rank_retained                  \* example ids in max_indices[feature_id]

passVars == <<cfg_batch_size, rank_pc, batch_idx, rank_cursor, rank_retained>>

VARIABLES
    \* ---- find_top_activations_for_neurons (537-602), one neuron ----
    val_len,                       \* examples val_dataloader will yield
    val_batch_size,                \* batch size of val_dataloader
    eval_max,                      \* cfg.eval_max (max_samples)
    top_k,                         \* the top_k argument
    top_pc,                        \* position in the function
    processed_samples,
    top_values,                    \* top_activations[neuron_idx][0], <<>> for None
    top_indices,                   \* top_activations[neuron_idx][1]
    top_is_none,                   \* top_activations[neuron_idx] is (None, None)
    seen_values                    \* value of every image processed, by example id

topVars == <<val_len, val_batch_size, eval_max, top_k, top_pc, processed_samples,
             top_values, top_indices, top_is_none, seen_values>>

restVars == <<sampleVars, passVars, topVars>>

vars == <<rankVars, statsVars, evalVars, actsVars, restVars>>

\* ------------------------------------------------------- tensor helpers
MaxOf(S) == CHOOSE m \in S : \A x \in S : x <= m

MinInt(a, b) == IF a <= b THEN a ELSE b

Range(s) == {s[i] : i \in DOMAIN s}

\* ascending sequence of the elements of a finite set of integers
MinOf(S) == CHOOSE m \in S : \A x \in S : m <= x

RECURSIVE SortedSeq(_)
SortedSeq(S) ==
    IF S = {} THEN <<>> ELSE <<MinOf(S)>> \o SortedSeq(S \ {MinOf(S)})

\* fault variant of TorchUnique: the tensor is returned with its duplicates
TorchUniqueKeepDup(t) == t

\* torch.unique(t): the distinct elements of t in ascending order
TorchUnique(t) == SortedSeq(Range(t))

\* fault variant of IndexReduceAmax: slot j keeps the first value found for
\* its id instead of the largest
IndexReduceAmaxKeepFirst(u, t, v) ==
    [j \in DOMAIN u |->
        LET pos == {i \in DOMAIN t : t[i] = u[j]}
        IN  IF pos = {} THEN 0 ELSE v[CHOOSE i \in pos : \A k \in pos : i <= k]]

\* zeros_like(u).index_reduce_(0, inverse, v, "amax"): slot j starts at 0 and
\* takes the maximum of itself and every v[i] whose id t[i] is u[j]
IndexReduceAmax(u, t, v) ==
    [j \in DOMAIN u |-> MaxOf({0} \cup {v[i] : i \in {i \in DOMAIN t : t[i] = u[j]}})]

\* fault variant of TopK: the first k positions, whatever their values
TopKFirstK(v, k) == {[i \in 1..k |-> i]}

\* torch.topk(v, k) (largest, sorted): every index sequence the operator may
\* return.  The k selected values are the k largest and come out in
\* descending order; which of several equal values is taken, and the order
\* among equal values, is not specified by torch.

TopK(v, k) ==
    {s \in [1..k -> DOMAIN v] :
        /\ \A i, j \in 1..k : i < j => (s[i] # s[j] /\ v[s[i]] >= v[s[j]])
        /\ \A p \in DOMAIN v : (\A i \in 1..k : s[i] # p) => v[p] <= v[s[k]]}

Gather(t, idx) == [i \in DOMAIN idx |-> t[idx[i]]]

\* ------------------------------------------------------ batch inputs
\* new_top_info[feature_id] of one batch: the (global image id, activation
\* value) pairs reported for the feature; the same image may be reported for
\* several tokens.
Pairs == [image : 1..NumIds, value : 1..MaxVal]

\* the batches explored: up to MaxBatchLen pairs over the bounded ids and
\* values, and every way of putting pairs of the scenario into one batch
Batches ==
    {b \in SUBSET Pairs : Cardinality(b) \in 1..MaxBatchLen}
        \cup (SUBSET ScenarioPairs \ {{}})

\* the pairs of a batch laid out as the two aligned tensors of the code
ValBase == MaxOf(Vals) + 1
PairKey(p) == p.image * ValBase + p.value
PairOfKey(k) == [image |-> k \div ValBase, value |-> k % ValBase]
PairKeys(b) == SortedSeq({PairKey(p) : p \in b})

GlobalImageIndices(b) == [i \in 1..Cardinality(b) |-> PairOfKey(PairKeys(b)[i]).image]
TokenActivationValues(b) == [i \in 1..Cardinality(b) |-> PairOfKey(PairKeys(b)[i]).value]

\* lines 353-361: deduplicate the batch by image id, maximum value per id
BatchUnique(b) == TorchUnique(GlobalImageIndices(b))
BatchValues(b) ==
    IndexReduceAmax(BatchUnique(b), GlobalImageIndices(b), TokenActivationValues(b))

\* ------------------------------------------------------ history helpers
\* the largest value a batch submits for each id, -1 for an id it does not hold
BatchMax(b) ==
    [e \in Ids |-> MaxOf({-1} \cup {p.value : p \in {q \in b : q.image = e}})]

\* the ids a batch submits with two different values
BatchDup(b) ==
    {e \in Ids : \E p, q \in b : p.image = e /\ q.image = e /\ p.value < q.value}

\* every batch with its deduplicated tensors and what the history records of it
Inputs ==
    {[unique_image_indices |-> BatchUnique(b),
      unique_activation_values |-> BatchValues(b),
      bmax |-> BatchMax(b),
      dup |-> BatchDup(b)] : b \in Batches}

\* the retained (value, example id) pairs as a set
Retained == {[image |-> max_indices[i], value |-> max_values[i]] : i \in DOMAIN max_indices}

\* what a "history" run records of a batch
History(in) ==
    IF observe = "history"
    THEN /\ sub_max' = [e \in Ids |-> IF in.bmax[e] > sub_max[e] THEN in.bmax[e]
                                                                ELSE sub_max[e]]
         /\ raised' = raised \cup in.dup
                        \cup {e \in Ids : sub_max[e] >= 0 /\ in.bmax[e] > sub_max[e]}
    ELSE UNCHANGED <<sub_max, raised>>

\* what a "merge" run records of a merge whose deduplicated union is (uai, uav)
LastMerge(in, uai, uav) ==
    IF observe = "merge"
    THEN /\ unique_all_indices' = uai
         /\ unique_all_values' = uav
         /\ resubmitted' =
               \A e \in Ids : in.bmax[e] >= 0 =>
                   \E r \in Retained : r.image = e /\ in.bmax[e] <= r.value
    ELSE UNCHANGED <<unique_all_indices, unique_all_values, resubmitted>>

\* ------------------------------------------------------ passes not running
\* process_dataset before its first statement (lines 115-131)
StatsLocalsInit ==
    /\ stats_pc = "fetch"
    /\ cursor = 0
    /\ n_batches = 0
    /\ batch_size = 0
    /\ total_samples = 0
    /\ total_tokens = 0
    /\ total_acts = 0
    /\ all_l0 = <<>>
    /\ all_l0_cls = <<>>
    /\ all_l0_image = <<>>
    /\ all_cosine_similarity = <<>>
    /\ total_loss = 0
    /\ total_reconstruction_loss = 0
    /\ total_zero_abl_loss = 0
    /\ ended_by = "none"
    /\ stats = <<>>

\* the statistics pass is not part of a run of the ranking pass
StatsIdle ==
    /\ dataset_len = 0
    /\ dl_batch_size = 1
    /\ max_evaluation_images = 1
    /\ StatsLocalsInit

\* the ranking pass is not part of a run of the statistics pass
RankIdle ==
    /\ max_images_per_feature = 1
    /\ max_is_none = TRUE
    /\ max_indices = <<>>
    /\ max_values = <<>>
    /\ merge_kind = "none"
    /\ observe = "merge"
    /\ unique_all_indices = <<>>
    /\ unique_all_values = <<>>
    /\ resubmitted = FALSE
    /\ sub_max = [e \in Ids |-> -1]
    /\ raised = {}

\* no call of evaluate is in progress
EvalIdle ==
    /\ context = "training"
    /\ evaluation_cfg = "none"
    /\ evaluation_functions = <<>>
    /\ training = FALSE
    /\ was_training = FALSE
    /\ is_train = FALSE
    /\ eval_pc = "idle"
    /\ exception = "none"
    /\ stats_file = <<>>
    /\ wandb_logged = <<>>
    /\ func_pos = 0
    /\ ran = <<>>
    /\ warnings = <<>>

\* the feature activations are not looked into
ActsIdle ==
    /\ n_tokens = 2
    /\ d_sae = 1
    /\ only_scenario = TRUE
    /\ positives = <<>>

\* plot_log_frequencies is not sampling or displaying
SampleIdle ==
    /\ log_freq_tokens = <<>>
    /\ samples_per_bin = 0
    /\ sample_mode = "display"
    /\ sample_pc = "idle"
    /\ bin_idx = 0
    /\ interesting_features_indices = <<>>
    /\ interesting_features_values = <<>>
    /\ interesting_features_category = <<>>
    /\ first_run_indices = <<>>
    /\ top_per_feature_keys = <<>>
    /\ artifacts = <<>>

\* the batch loop of the ranking pass is not followed
PassIdle ==
    /\ cfg_batch_size = 1
    /\ rank_pc = "idle"
    /\ batch_idx = 0
    /\ rank_cursor = 0
    /\ rank_retained = {}

\* find_top_activations_for_neurons is not called
TopIdle ==
    /\ val_len = 0
    /\ val_batch_size = 1
    /\ eval_max = 1
    /\ top_k = 1
    /\ top_pc = "idle"
    /\ processed_samples = 0
    /\ top_values = <<>>
    /\ top_indices = <<>>
    /\ top_is_none = TRUE
    /\ seen_values = <<>>

RestIdle == SampleIdle /\ PassIdle /\ TopIdle

\* ------------------------------------------------------ ranking pass
RankInit ==
    /\ StatsIdle
    /\ EvalIdle
    /\ ActsIdle
    /\ RestIdle
    /\ max_images_per_feature \in 1..MaxK
    /\ max_is_none = TRUE
    /\ max_indices = <<>>
    /\ max_values = <<>>
    /\ merge_kind = "none"
    /\ observe \in {"merge", "history"}
    /\ unique_all_indices = <<>>
    /\ unique_all_values = <<>>
    /\ resubmitted = FALSE
    /\ sub_max = [e \in Ids |-> -1]
    /\ raised = {}

\* lines 363-365: the first batch initialises the retained tensors as they
\* come out of the deduplication, whatever their length
FirstBatch ==
    /\ max_is_none
    /\ \E in \in Inputs :
          /\ max_indices' = in.unique_image_indices
          /\ max_values' = in.unique_activation_values
          /\ History(in)
    /\ max_is_none' = FALSE
    /\ merge_kind' = "first"
    /\ UNCHANGED <<max_images_per_feature, observe, unique_all_indices,
                   unique_all_values, resubmitted, statsVars, evalVars, actsVars, restVars>>

\* lines 368-384: concatenate with the retained tensors and deduplicate again
UniqueAllIndices(in) == TorchUnique(max_indices \o in.unique_image_indices)
UniqueAllValues(in, uai) ==
    IndexReduceAmax(uai, max_indices \o in.unique_image_indices,
                    max_values \o in.unique_activation_values)

\* lines 387-396: more than K distinct ids, keep the top K
SelectTopK(uai, uav) ==
    /\ \E top_k_idx \in TopK(uav, max_images_per_feature) :
          /\ max_indices' = Gather(uai, top_k_idx)
          /\ max_values' = Gather(uav, top_k_idx)
    /\ merge_kind' = "topk"

\* lines 397-399: at most K distinct ids, keep them all
KeepAll(uai, uav) ==
    /\ max_indices' = uai
    /\ max_values' = uav
    /\ merge_kind' = "all"

\* lines 366-399: every later batch is merged with the retained tensors
Merge ==
    /\ ~max_is_none
    /\ \E in \in Inputs :
          \E uai \in {UniqueAllIndices(in)} :
             \E uav \in {UniqueAllValues(in, uai)} :
                /\ IF Len(uai) > max_images_per_feature
                      THEN SelectTopK(uai, uav)
                      ELSE KeepAll(uai, uav)
                /\ LastMerge(in, uai, uav)
                /\ History(in)
    /\ UNCHANGED <<max_images_per_feature, max_is_none, observe, statsVars, evalVars, actsVars, restVars>>

\* one iteration of the batch loop for the tracked feature (lines 340-399)
RankNext == FirstBatch \/ Merge

SpecRank == RankInit /\ [][RankNext]_vars

\* ------------------------------------------------------ statistics pass
\* The model, the SAE and get_recons_loss are deterministic collaborators: what
\* a batch contributes is a function of the batch.  Example i stands for its
\* own L0 values in the L0 lists, batch k for its own mean cosine similarity,
\* and the loss terms and activation counts of batch k are given the binary
\* digit 2^(k-1), so that a running sum tells exactly which batches were added.
NumTokens == 2

Digit(k) == 2 ^ (k - 1)

RECURSIVE DigitSum(_)
DigitSum(n) == IF n = 0 THEN 0 ELSE Digit(n) + DigitSum(n - 1)

\* the examples of the batch in hand, in dataset order
BatchExamples == [i \in 1..batch_size |-> cursor - batch_size + i]

\* fault variant of Accumulate: the running total is overwritten
AccumulateOverwrite(total, item) == item

\* x += item (lines 141, 157, 159, 201-203)
Accumulate(total, item) == total + item

\* fault variant of StopTest: strict comparison
StopTestStrict(ts, max_images) == ts > max_images

\* line 205: the stop test evaluated at the end of a batch
StopTest(ts, max_images) == ts >= max_images

\* lines 209-211, 222: the divisor of the averaged sums
Divisor == total_samples

\* fault variant of YieldSize: every batch is taken to be a full one
YieldSizeFull(bs, remaining) == bs

\* lines 63-68, 139: the size of the batch the dataloader yields (shuffle off,
\* drop_last off): a full batch, or what is left of the dataset
YieldSize(bs, remaining) == MinInt(bs, remaining)

\* fault variant of CosEntries: one entry per image of the batch
CosEntriesPerImage(cos_sim, bsize) == [i \in 1..bsize |-> cos_sim]

\* lines 174-188: what a batch appends to all_cosine_similarity, its mean cosine
\* similarity, once, whatever the size of the batch
CosEntries(cos_sim, bsize) == <<cos_sim>>

RECURSIVE SeqSum(_)
SeqSum(s) == IF s = <<>> THEN 0 ELSE s[1] + SeqSum(Tail(s))

\* np.mean of a list of numbers (lines 213-217), kept as <<sum, count>>
NpMean(l) == <<SeqSum(l), Len(l)>>

\* fault variant of DivisionRaises: the division never raises
DivisionNeverRaises(divisor) == FALSE

\* lines 209-211: int / int raises ZeroDivisionError when the divisor is 0
DivisionRaises(divisor) == divisor = 0

StatsInit ==
    /\ RankIdle
    /\ EvalIdle
    /\ ActsIdle
    /\ RestIdle
    /\ dataset_len \in 0..MaxDataset
    /\ dl_batch_size \in 1..MaxBatchSize
    /\ max_evaluation_images \in 0..MaxEval
    /\ StatsLocalsInit

\* lines 135-141: the dataloader yields the next batch (the last one may be
\* short) and the batch is counted in total_samples
Fetch ==
    /\ stats_pc = "fetch"
    /\ cursor < dataset_len
    /\ batch_size' = YieldSize(dl_batch_size, dataset_len - cursor)
    /\ cursor' = cursor + batch_size'
    /\ n_batches' = n_batches + 1
    /\ total_samples' = Accumulate(total_samples, batch_size')
    /\ stats_pc' = "acts"
    /\ UNCHANGED <<dataset_len, dl_batch_size, max_evaluation_images, total_tokens,
                   total_acts, all_l0, all_l0_cls, all_l0_image,
                   all_cosine_similarity, total_loss, total_reconstruction_loss,
                   total_zero_abl_loss, ended_by, stats, rankVars, evalVars, actsVars, restVars>>

\* line 135: the dataloader is exhausted, the loop ends
Exhausted ==
    /\ stats_pc = "fetch"
    /\ cursor >= dataset_len
    /\ ended_by' = "exhausted"
    /\ stats_pc' = "finalize"
    /\ UNCHANGED <<dataset_len, dl_batch_size, max_evaluation_images, cursor,
                   n_batches, batch_size, total_samples, total_tokens, total_acts,
                   all_l0, all_l0_cls, all_l0_image, all_cosine_similarity,
                   total_loss, total_reconstruction_loss, total_zero_abl_loss,
                   stats, rankVars, evalVars, actsVars, restVars>>

\* lines 143-159: forward pass, activation counts and token count
AccumActs ==
    /\ stats_pc = "acts"
    /\ total_acts' = Accumulate(total_acts, Digit(n_batches))
    /\ total_tokens' = Accumulate(total_tokens, batch_size * NumTokens)
    /\ stats_pc' = "l0"
    /\ UNCHANGED <<dataset_len, dl_batch_size, max_evaluation_images, cursor,
                   n_batches, batch_size, total_samples, all_l0, all_l0_cls,
                   all_l0_image, all_cosine_similarity, total_loss,
                   total_reconstruction_loss, total_zero_abl_loss, ended_by, stats,
                   rankVars, evalVars, actsVars, restVars>>

\* lines 162-171: one L0 entry per image of the batch in each of the three lists
AccumL0 ==
    /\ stats_pc = "l0"
    /\ all_l0' = all_l0 \o BatchExamples
    /\ all_l0_cls' = all_l0_cls \o BatchExamples
    /\ all_l0_image' = all_l0_image \o BatchExamples
    /\ stats_pc' = "cos"
    /\ UNCHANGED <<dataset_len, dl_batch_size, max_evaluation_images, cursor,
                   n_batches, batch_size, total_samples, total_tokens, total_acts,
                   all_cosine_similarity, total_loss, total_reconstruction_loss,
                   total_zero_abl_loss, ended_by, stats, rankVars, evalVars, actsVars, restVars>>

\* lines 173-188: one mean cosine similarity per batch
AccumCos ==
    /\ stats_pc = "cos"
    /\ all_cosine_similarity' = all_cosine_similarity \o CosEntries(n_batches, batch_size)
    /\ stats_pc' = "loss"
    /\ UNCHANGED <<dataset_len, dl_batch_size, max_evaluation_images, cursor,
                   n_batches, batch_size, total_samples, total_tokens, total_acts,
                   all_l0, all_l0_cls, all_l0_image, total_loss,
                   total_reconstruction_loss, total_zero_abl_loss, ended_by, stats,
                   rankVars, evalVars, actsVars, restVars>>

\* lines 190-203: substitution loss terms of the batch
AccumLoss ==
    /\ stats_pc = "loss"
    /\ total_loss' = Accumulate(total_loss, Digit(n_batches))
    /\ total_reconstruction_loss' = Accumulate(total_reconstruction_loss, Digit(n_batches))
    /\ total_zero_abl_loss' = Accumulate(total_zero_abl_loss, Digit(n_batches))
    /\ stats_pc' = "check"
    /\ UNCHANGED <<dataset_len, dl_batch_size, max_evaluation_images, cursor,
                   n_batches, batch_size, total_samples, total_tokens, total_acts,
                   all_l0, all_l0_cls, all_l0_image, all_cosine_similarity,
                   ended_by, stats, rankVars, evalVars, actsVars, restVars>>

\* lines 205-206: break once enough samples were seen, else next iteration
StopCheck ==
    /\ stats_pc = "check"
    /\ IF StopTest(total_samples, max_evaluation_images)
          THEN stats_pc' = "finalize" /\ ended_by' = "break"
          ELSE stats_pc' = "fetch" /\ UNCHANGED ended_by
    /\ UNCHANGED <<dataset_len, dl_batch_size, max_evaluation_images, cursor,
                   n_batches, batch_size, total_samples, total_tokens, total_acts,
                   all_l0, all_l0_cls, all_l0_image, all_cosine_similarity,
                   total_loss, total_reconstruction_loss, total_zero_abl_loss,
                   stats, rankVars, evalVars, actsVars, restVars>>

\* lines 208-237: averages and the EvalStats; a ratio is kept as
\* <<numerator, divisor>>.  With no batch at all total_loss / total_samples is
\* 0 / 0 and raises.
Finalize ==
    /\ stats_pc = "finalize"
    /\ IF DivisionRaises(total_samples)
          THEN stats_pc' = "raised" /\ UNCHANGED stats
          ELSE /\ stats_pc' = "returned"
               /\ stats' = [avg_loss |-> <<total_loss, Divisor>>,
                            avg_cos_sim |-> NpMean(all_cosine_similarity),
                            avg_reconstruction_loss |->
                                <<total_reconstruction_loss, Divisor>>,
                            avg_zero_abl_loss |-> <<total_zero_abl_loss, Divisor>>,
                            avg_l0 |-> NpMean(all_l0),
                            avg_l0_cls |-> NpMean(all_l0_cls),
                            avg_l0_image |-> NpMean(all_l0_image),
                            log_frequencies_per_token |-> <<total_acts, total_tokens>>,
                            log_frequencies_per_image |-> <<total_acts, Divisor>>]
    /\ UNCHANGED <<dataset_len, dl_batch_size, max_evaluation_images, cursor,
                   n_batches, batch_size, total_samples, total_tokens, total_acts,
                   all_l0, all_l0_cls, all_l0_image, all_cosine_similarity,
                   total_loss, total_reconstruction_loss, total_zero_abl_loss,
                   ended_by, rankVars, evalVars, actsVars, restVars>>

StatsNext ==
    \/ Fetch \/ Exhausted \/ AccumActs \/ AccumL0 \/ AccumCos \/ AccumLoss
    \/ StopCheck \/ Finalize

SpecStats == StatsInit /\ [][StatsNext]_vars

\* ------------------------------------------------------ L0 statistics
\* The L0 part of process_dataset (lines 162-171, 213-215) on the feature
\* activations themselves.  feature_acts has shape [batch, tokens, d_sae],
\* token 0 (index 1 here) being the class token; every operation of these
\* lines works on each image of the batch separately, so the operators are
\* written for one image, a sequence of n_tokens rows of d_sae activations.
\* A float is kept as the ratio <<numerator, denominator>> where it need not
\* be whole.
ActVals == {-1, 0, 1}

\* the batch of the L0 scenario of the specification (section 8)
ScenarioActs ==
    << << <<1, 0, 0, 0>>, <<0, 2, 0, 0>>, <<0, 0, 0, 0>> >>,
       << <<0, 0, 3, 0>>, <<0, 0, 0, 0>>, <<0, 0, 0, 4>> >> >>

\* fault variant of PosCount: the activations are summed, not counted
PosCountSumValues(row) == SeqSum(row)

\* (row > 0).float().sum(-1): how many activations of a token are > 0
PosCount(row) == Cardinality({f \in DOMAIN row : row[f] > 0})

\* line 163: the counts of the non-class tokens, feature_acts[:, 1:, :]
NonClassL0(img) == [t \in 1..(Len(img) - 1) |-> PosCount(img[t + 1])]

\* line 164: l0.mean(dim=1)
MeanDim1(v) == <<SeqSum(v), Len(v)>>

\* fault variant of ClassL0: the last token is taken for the class token
ClassL0LastToken(img) == PosCount(img[Len(img)])

\* line 165: the count of the class token, feature_acts[:, 0, :]
ClassL0(img) == PosCount(img[1])

\* line 169: the counts of all tokens
TokenL0(img) == [t \in DOMAIN img |-> PosCount(img[t])]

\* fault variant of ImageL0: the class token is left out
ImageL0NonClass(img) == SeqSum(NonClassL0(img))

\* line 170: l0.sum(dim=1)
ImageL0(img) == SeqSum(TokenL0(img))

\* np.mean of a list of ratios (line 213)
RatioAdd(a, b) == <<a[1] * b[2] + b[1] * a[2], a[2] * b[2]>>

RECURSIVE RatioSum(_)
RatioSum(l) == IF l = <<>> THEN <<0, 1>> ELSE RatioAdd(l[1], RatioSum(Tail(l)))

NpMeanOfRatios(l) == <<RatioSum(l)[1], RatioSum(l)[2] * Len(l)>>

\* what lines 162-171 take from one image, and the number of its entries
\* that are > 0 counted directly
ImageRecord(img) ==
    [l0 |-> MeanDim1(NonClassL0(img)),
     l0_cls |-> ClassL0(img),
     l0_image |-> ImageL0(img),
     positive |-> Cardinality({c \in (DOMAIN img) \X (DOMAIN img[1]) : img[c[1]][c[2]] > 0})]

\* the images explored: NumTokens tokens of d activations, d up to MaxFeat
ImageRecords ==
    [d \in 1..MaxFeat |->
        {ImageRecord(img) : img \in [1..NumTokens -> [1..d -> ActVals]]}]

ScenarioShape == <<Len(ScenarioActs[1]), Len(ScenarioActs[1][1])>>

ScenarioInput ==
    [images |-> [b \in DOMAIN ScenarioActs |-> ImageRecord(ScenarioActs[b])],
     scenario |-> TRUE]

Shapes == {<<NumTokens, d>> : d \in 1..MaxFeat} \cup {ScenarioShape}

\* the batches of shape [*, t, d] explored when at most room images may still
\* be ingested: every sequence of explored images, and the scenario batch
ActsInputs(t, d, room) ==
    (IF t = NumTokens /\ d \in 1..MaxFeat
        THEN {[images |-> b, scenario |-> FALSE] :
                 b \in UNION {[1..n -> ImageRecords[d]] : n \in 1..room}}
        ELSE {})
    \cup (IF <<t, d>> = ScenarioShape /\ Len(ScenarioActs) <= room
             THEN {ScenarioInput}
             ELSE {})

ActsInit ==
    /\ RankIdle
    /\ EvalIdle
    /\ StatsIdle
    /\ RestIdle
    /\ \E shape \in Shapes : n_tokens = shape[1] /\ d_sae = shape[2]
    /\ only_scenario = TRUE
    /\ positives = <<>>

\* lines 139-141, 162-171: a batch is pulled and its L0 values are appended
IngestActs ==
    /\ stats_pc = "fetch"
    /\ \E in \in ActsInputs(n_tokens, d_sae, MaxImages - total_samples) :
          /\ batch_size' = Len(in.images)
          /\ all_l0' = all_l0 \o [b \in DOMAIN in.images |-> in.images[b].l0]
          /\ all_l0_cls' = all_l0_cls \o [b \in DOMAIN in.images |-> in.images[b].l0_cls]
          /\ all_l0_image' =
                all_l0_image \o [b \in DOMAIN in.images |-> in.images[b].l0_image]
          /\ positives' = positives \o [b \in DOMAIN in.images |-> in.images[b].positive]
          /\ only_scenario' = (only_scenario /\ in.scenario)
    /\ total_samples' = Accumulate(total_samples, batch_size')
    /\ n_batches' = n_batches + 1
    /\ UNCHANGED <<dataset_len, dl_batch_size, max_evaluation_images, stats_pc, cursor,
                   total_tokens, total_acts, all_cosine_similarity, total_loss,
                   total_reconstruction_loss, total_zero_abl_loss, ended_by, stats,
                   n_tokens, d_sae, rankVars, evalVars, restVars>>

\* lines 209, 213-215: the batch loop is over, the L0 averages are taken
FinalizeActs ==
    /\ stats_pc = "fetch"
    /\ IF DivisionRaises(total_samples)
          THEN stats_pc' = "raised" /\ UNCHANGED stats
          ELSE /\ stats_pc' = "returned"
               /\ stats' = [avg_l0 |-> NpMeanOfRatios(all_l0),
                            avg_l0_cls |-> NpMean(all_l0_cls),
                            avg_l0_image |-> NpMean(all_l0_image)]
    /\ UNCHANGED <<dataset_len, dl_batch_size, max_evaluation_images, cursor,
                   n_batches, batch_size, total_samples, total_tokens, total_acts,
                   all_l0, all_l0_cls, all_l0_image, all_cosine_similarity,
                   total_loss, total_reconstruction_loss, total_zero_abl_loss,
                   ended_by, rankVars, evalVars, actsVars, restVars>>

ActsNext == IngestActs \/ FinalizeActs

SpecActs == ActsInit /\ [][ActsNext]_vars

\* ------------------------------------------- feature sampling and display
\* plot_log_frequencies without its batch loop: the per-bin sampling (286-310),
\* the per-feature dictionaries (319-320, 404-407) and the display loop
\* (410-495), of which the (feature, category, log frequency) naming each
\* saved figure is kept.  Feature ids are 1-based here.
\*
\* get_intervals_for_sparsities is imported from eval_utils: its bins are taken
\* to be labelled intervals of log frequency, pairwise disjoint and not
\* covering every value.  A log frequency is one of a few levels: level 0 lies
\* in no bin, levels 2b-1 and 2b lie in bin b.
BinTexts == <<"low", "high">>

Levels == 0..(2 * Len(BinTexts))

BinOfLevel(v) == (v + 1) \div 2

\* conditions[b]: the boolean tensor of the features whose value lies in bin b
Condition(b, log_freq) == [f \in DOMAIN log_freq |-> BinOfLevel(log_freq[f]) = b]

\* the counts explored for samples_per_bin, 10 being the count of the
\* sampling scenario of the specification (section 8)
SampleCounts == (0..MaxSamples) \cup {10}

\* line 293: torch.nonzero(condition, as_tuple=True)[0], ascending
Nonzero(cond) == SortedSeq({f \in DOMAIN cond : cond[f]})

\* fault variant of RandPerm: n draws with replacement
RandPermWithReplacement(n) == [1..n -> 1..n]

\* line 297: torch.randperm(n) draws from the global generator, which the
\* evaluator neither seeds nor replaces: every permutation may come out
RandPerm(n) == {p \in [1..n -> 1..n] : \A i, j \in 1..n : i # j => p[i] # p[j]}

\* lines 297-299: t[:k] for k >= 0
SlicePrefix(t, k) == SubSeq(t, 1, MinInt(k, Len(t)))

\* fault variant of Labels: one label for the bin
LabelsOnce(text, n) == <<text>>

\* lines 307-309: [condition_text] * len(sampled_indices)
Labels(text, n) == [i \in 1..n |-> text]

\* lines 319-320: the keys of {i: None for i in list}, a key staying where it
\* was first inserted
RECURSIVE DictKeys(_)
DictKeys(list) ==
    IF list = <<>> THEN <<>>
    ELSE LET init == DictKeys(SubSeq(list, 1, Len(list) - 1))
             last == list[Len(list)]
         IN  IF last \in Range(init) THEN init ELSE Append(init, last)

\* lines 410-416: zip stops with its shortest argument
Zip3(a, b, c) ==
    [i \in 1..MinInt(Len(a), MinInt(Len(b), Len(c))) |-> <<a[i], b[i], c[i]>>]

SampleInit ==
    /\ RankIdle
    /\ StatsIdle
    /\ EvalIdle
    /\ ActsIdle
    /\ PassIdle
    /\ TopIdle
    /\ log_freq_tokens \in [1..MaxBinned -> Levels]
    /\ samples_per_bin \in SampleCounts
    /\ sample_mode \in {"display", "repeat"}
    /\ sample_pc = "sample"
    /\ bin_idx = 0
    /\ interesting_features_indices = <<>>
    /\ interesting_features_values = <<>>
    /\ interesting_features_category = <<>>
    /\ first_run_indices = <<>>
    /\ top_per_feature_keys = <<>>
    /\ artifacts = <<>>

\* lines 292-310: one iteration of the sampling loop
SampleBin ==
    /\ sample_pc \in {"sample", "sample_again"}
    /\ bin_idx < Len(BinTexts)
    /\ bin_idx' = bin_idx + 1
    /\ \E potential_indices \in {Nonzero(Condition(bin_idx + 1, log_freq_tokens))} :
          \E perm \in RandPerm(Len(potential_indices)) :
             \E sampled_indices \in
                   {Gather(potential_indices, SlicePrefix(perm, samples_per_bin))} :
                /\ interesting_features_indices' =
                      interesting_features_indices \o sampled_indices
                /\ interesting_features_values' =
                      interesting_features_values
                         \o Gather(log_freq_tokens, sampled_indices)
                /\ interesting_features_category' =
                      interesting_features_category
                         \o Labels(BinTexts[bin_idx + 1], Len(sampled_indices))
    /\ UNCHANGED <<log_freq_tokens, samples_per_bin, sample_mode, sample_pc,
                   first_run_indices, top_per_feature_keys, artifacts, rankVars,
                   statsVars, evalVars, actsVars, passVars, topVars>>

\* a second call from the same statistics: the first sampling is kept aside
\* and the locals start empty again (288-290)
SampleAgain ==
    /\ sample_pc = "sample"
    /\ sample_mode = "repeat"
    /\ bin_idx = Len(BinTexts)
    /\ first_run_indices' = interesting_features_indices
    /\ interesting_features_indices' = <<>>
    /\ interesting_features_values' = <<>>
    /\ interesting_features_category' = <<>>
    /\ bin_idx' = 0
    /\ sample_pc' = "sample_again"
    /\ UNCHANGED <<log_freq_tokens, samples_per_bin, sample_mode,
                   top_per_feature_keys, artifacts, rankVars, statsVars, evalVars,
                   actsVars, passVars, topVars>>

\* the second sampling is over
SampleRepeated ==
    /\ sample_pc = "sample_again"
    /\ bin_idx = Len(BinTexts)
    /\ sample_pc' = "repeated"
    /\ UNCHANGED <<log_freq_tokens, samples_per_bin, sample_mode, bin_idx,
                   interesting_features_indices, interesting_features_values,
                   interesting_features_category, first_run_indices,
                   top_per_feature_keys, artifacts, rankVars, statsVars, evalVars,
                   actsVars, passVars, topVars>>

\* lines 319-320, 404-407: the per-feature dictionaries, keyed by feature id
BuildKeys ==
    /\ sample_pc = "sample"
    /\ sample_mode = "display"
    /\ bin_idx = Len(BinTexts)
    /\ top_per_feature_keys' = DictKeys(interesting_features_indices)
    /\ sample_pc' = "display"
    /\ UNCHANGED <<log_freq_tokens, samples_per_bin, sample_mode, bin_idx,
                   interesting_features_indices, interesting_features_values,
                   interesting_features_category, first_run_indices, artifacts,
                   rankVars, statsVars, evalVars, actsVars, passVars, topVars>>

\* lines 410-495: one figure per element of the zip, named by its category,
\* its feature id and its log frequency
SaveFigures ==
    /\ sample_pc = "display"
    /\ artifacts' = Zip3(top_per_feature_keys, interesting_features_category,
                         interesting_features_values)
    /\ sample_pc' = "done"
    /\ UNCHANGED <<log_freq_tokens, samples_per_bin, sample_mode, bin_idx,
                   interesting_features_indices, interesting_features_values,
                   interesting_features_category, first_run_indices,
                   top_per_feature_keys, rankVars, statsVars, evalVars, actsVars,
                   passVars, topVars>>

SampleNext ==
    SampleBin \/ SampleAgain \/ SampleRepeated \/ BuildKeys \/ SaveFigures

SpecSample == SampleInit /\ [][SampleNext]_vars

\* ------------------------------------------- the two passes of one call
\* process_dataset followed by the batch loop of plot_log_frequencies
\* (324-402), both over self.dataloader, as evaluate runs them.  Example ids
\* are the positions 1..dataset_len in the order the dataloader yields them.
\* Of the merge (340-399) only the ids are followed: which images a batch
\* reports for the feature and which ids a truncation keeps depend on the
\* activation values, any outcome is explored.

\* lines 401-402: the stop test of the ranking loop, batch_idx being the
\* enumerate index (from 0) of the batch just processed
RankStopTest(idx, bs, this_max) == idx * bs >= this_max

\* lines 363-399 on ids: every retained set a merge of the reported ids may leave
MergedIds(retained, reported, first, k) ==
    IF first \/ Cardinality(retained \cup reported) <= k
    THEN {retained \cup reported}
    ELSE {keep \in SUBSET (retained \cup reported) : Cardinality(keep) = k}

PassesInit ==
    /\ max_images_per_feature \in 1..MaxK
    /\ max_is_none = TRUE
    /\ max_indices = <<>>
    /\ max_values = <<>>
    /\ merge_kind = "none"
    /\ observe = "merge"
    /\ unique_all_indices = <<>>
    /\ unique_all_values = <<>>
    /\ resubmitted = FALSE
    /\ sub_max = [e \in Ids |-> -1]
    /\ raised = {}
    /\ EvalIdle
    /\ ActsIdle
    /\ SampleIdle
    /\ TopIdle
    /\ dataset_len \in 0..MaxPassData
    /\ dl_batch_size \in 1..MaxRunData
    /\ max_evaluation_images \in 1..MaxRunData
    /\ StatsLocalsInit
    /\ cfg_batch_size \in 1..MaxRunData
    /\ rank_pc = "stats"
    /\ batch_idx = 0
    /\ rank_cursor = 0
    /\ rank_retained = {}

\* evaluate, line 96: process_dataset runs first
StatsPass ==
    /\ rank_pc = "stats"
    /\ StatsNext

\* evaluate, lines 100-104: plot_log_frequencies is dispatched with the
\* statistics returned; lines 318-326: the loop starts the dataloader anew
StartRankLoop ==
    /\ rank_pc = "stats"
    /\ stats_pc = "returned"
    /\ rank_pc' = "loop"
    /\ UNCHANGED <<cfg_batch_size, batch_idx, rank_cursor, rank_retained, rankVars,
                   statsVars, evalVars, actsVars, sampleVars, topVars>>

\* lines 324-402: one iteration, the batch pulled, merged and the stop test
RankBatch ==
    /\ rank_pc = "loop"
    /\ rank_cursor < dataset_len
    /\ \E size \in {YieldSize(dl_batch_size, dataset_len - rank_cursor)} :
          /\ rank_cursor' = rank_cursor + size
          /\ \E reported \in SUBSET ((rank_cursor + 1)..(rank_cursor + size)) :
                /\ reported # {}
                /\ rank_retained' \in MergedIds(rank_retained, reported, max_is_none,
                                                max_images_per_feature)
    /\ max_is_none' = FALSE
    /\ batch_idx' = batch_idx + 1
    /\ rank_pc' = IF RankStopTest(batch_idx, cfg_batch_size, max_evaluation_images)
                      THEN "done" ELSE "loop"
    /\ UNCHANGED <<cfg_batch_size, max_images_per_feature, max_indices, max_values,
                   merge_kind, observe, unique_all_indices, unique_all_values,
                   resubmitted, sub_max, raised, statsVars, evalVars, actsVars,
                   sampleVars, topVars>>

\* line 324: the dataloader is exhausted
RankExhausted ==
    /\ rank_pc = "loop"
    /\ rank_cursor >= dataset_len
    /\ rank_pc' = "done"
    /\ UNCHANGED <<cfg_batch_size, batch_idx, rank_cursor, rank_retained, rankVars,
                   statsVars, evalVars, actsVars, sampleVars, topVars>>

PassesNext == StatsPass \/ StartRankLoop \/ RankBatch \/ RankExhausted

SpecPasses == PassesInit /\ [][PassesNext]_vars

\* ------------------------------------- find_top_activations_for_neurons
\* The function for one neuron of neuron_indices (every neuron has its own
\* entry of top_activations).  The per-image value of the neuron is its mean
\* activation over the tokens (compute_neuron_activations, 529-530), a rank
\* 1..MaxVal here; the example ids of a batch are the positions of its images
\* in the order val_dataloader yields them.

\* lines 526, 532: the top min(top_k, batch_size) images of the batch, as
\* (positions in the batch, values)
BatchTop(vals, k) ==
    {[indices |-> idx, values |-> Gather(vals, idx)] :
        idx \in TopK(vals, MinInt(k, Len(vals)))}

\* line 588: torch.topk(combined_values, top_k) raises when top_k exceeds the
\* number of combined values
TopKRaises(combined_values, k) == k > Len(combined_values)

TopInit ==
    /\ RankIdle
    /\ StatsIdle
    /\ EvalIdle
    /\ ActsIdle
    /\ SampleIdle
    /\ PassIdle
    /\ val_len \in 0..MaxPassData
    /\ val_batch_size \in 1..MaxRunData
    /\ eval_max \in 1..MaxPassData
    /\ top_k \in 1..MaxTopK
    /\ top_pc = "loop"
    /\ processed_samples = 0
    /\ top_values = <<>>
    /\ top_indices = <<>>
    /\ top_is_none = TRUE
    /\ seen_values = <<>>

\* lines 568-596: one iteration of the batch loop
TopBatch ==
    /\ top_pc = "loop"
    /\ processed_samples < val_len
    /\ \E size \in {YieldSize(val_batch_size, val_len - processed_samples)} :
          \E vals \in [1..size -> 1..MaxVal] :
             \E new \in BatchTop(vals, top_k) :
                \E new_indices \in {[i \in DOMAIN new.indices |->
                                         processed_samples + new.indices[i]]} :
                   /\ seen_values' = seen_values \o vals
                   /\ processed_samples' = processed_samples + size
                   /\ IF top_is_none
                         THEN /\ top_values' = new.values
                              /\ top_indices' = new_indices
                              /\ top_pc' = IF processed_samples' >= eval_max
                                               THEN "return" ELSE "loop"
                         ELSE IF TopKRaises(top_values \o new.values, top_k)
                         THEN /\ top_pc' = "error"
                              /\ UNCHANGED <<top_values, top_indices>>
                         ELSE /\ \E top_k_indices \in
                                       TopK(top_values \o new.values, top_k) :
                                    /\ top_values' =
                                          Gather(top_values \o new.values, top_k_indices)
                                    /\ top_indices' =
                                          Gather(top_indices \o new_indices, top_k_indices)
                              /\ top_pc' = IF processed_samples' >= eval_max
                                               THEN "return" ELSE "loop"
    /\ top_is_none' = FALSE
    /\ UNCHANGED <<val_len, val_batch_size, eval_max, top_k, rankVars, statsVars,
                   evalVars, actsVars, sampleVars, passVars>>

\* line 568: val_dataloader is exhausted
TopExhausted ==
    /\ top_pc = "loop"
    /\ processed_samples >= val_len
    /\ top_pc' = "return"
    /\ UNCHANGED <<val_len, val_batch_size, eval_max, top_k, processed_samples,
                   top_values, top_indices, top_is_none, seen_values, rankVars,
                   statsVars, evalVars, actsVars, sampleVars, passVars>>

\* lines 598-601: values.detach() on every entry; an entry still (None, None)
\* has no detach
TopReturn ==
    /\ top_pc = "return"
    /\ top_pc' = IF top_is_none THEN "error" ELSE "returned"
    /\ UNCHANGED <<val_len, val_batch_size, eval_max, top_k, processed_samples,
                   top_values, top_indices, top_is_none, seen_values, rankVars,
                   statsVars, evalVars, actsVars, sampleVars, passVars>>

TopNext == TopBatch \/ TopExhausted \/ TopReturn

SpecTop == TopInit /\ [][TopNext]_vars

\* ------------------------------------------------------ evaluate
\* One call evaluate(sae, context) (lines 90-106) with the context manager
\* eval_mode (39-48), the evaluation_cfg setter (78-88), process_dataset (the
\* statistics pass above), save_stats (239-267) and the dispatch loop.  A
\* dispatched evaluation function is one step that returns or raises; the
\* file write and wandb.log may fail as I/O does.
Contexts == {"training", "post-training", "validation"}

\* the evaluation functions class Evaluator implements (line 269)
Implemented == {"plot_log_frequencies"}

FunctionNames == Implemented \cup {"not_implemented"}

FunctionLists == UNION {[1..n -> FunctionNames] : n \in 0..MaxFuncs}

\* fault variant of CfgFor: the last branch taken for every other context
CfgForFallThrough(ctx) ==
    IF ctx = "training" THEN "training_eval" ELSE "post_training_eval"

\* lines 80-88: the configuration the setter selects for a context
CfgFor(ctx) ==
    IF ctx = "training" THEN "training_eval"
    ELSE IF ctx = "post-training" THEN "post_training_eval"
    ELSE "invalid"

\* fault variant of NextStep: the functions are dispatched before the
\* statistics are saved
NextStepDispatchFirst(pc) ==
    CASE pc = "process" -> "dispatch"
      [] pc = "dispatch" -> "save"
      [] pc = "save" -> "log"
      [] pc = "log" -> "exit"

\* lines 96-106: the order of the statements inside the with block
NextStep(pc) ==
    CASE pc = "process" -> "save"
      [] pc = "save" -> "log"
      [] pc = "log" -> "dispatch"
      [] pc = "dispatch" -> "exit"

\* fault variant of Resolves: every name is taken to be implemented
ResolvesAny(name) == TRUE

\* lines 102-103: getattr(self, func_name, None) is truthy
Resolves(name) == name \in Implemented

\* fault variant of AfterCall: the exception is caught and the loop goes on
AfterCallCaught(ok, pc) == pc

\* lines 103-104: eval_func(sae, stats) is called outside any try statement,
\* an exception leaves the loop and the with block
AfterCall(ok, pc) == IF ok THEN pc ELSE "exit"

\* fault variant of Restore: the mode is left as it is
RestoreNever(saved, flag) == flag

\* lines 46-48: finally, sae.train() when the SAE was in training mode
Restore(saved, flag) == IF saved THEN TRUE ELSE flag

EvalInit ==
    /\ RankIdle
    /\ ActsIdle
    /\ RestIdle
    /\ dataset_len \in 0..MaxRunData
    /\ dl_batch_size = 1
    /\ max_evaluation_images \in 1..MaxRunData
    /\ StatsLocalsInit
    /\ context \in Contexts
    /\ evaluation_cfg \in {"none", "training_eval", "post_training_eval"}
    /\ evaluation_functions \in FunctionLists
    /\ training \in BOOLEAN
    /\ was_training = training
    /\ is_train = FALSE
    /\ eval_pc = "call"
    /\ exception = "none"
    /\ stats_file = <<>>
    /\ wandb_logged = <<>>
    /\ func_pos = 0
    /\ ran = <<>>
    /\ warnings = <<>>

\* lines 94, 78-88: self.evaluation_cfg = context
SetContext ==
    /\ eval_pc = "call"
    /\ IF CfgFor(context) = "invalid"
          THEN /\ exception' = "ValueError"
               /\ eval_pc' = "raised"
               /\ UNCHANGED evaluation_cfg
          ELSE /\ evaluation_cfg' = CfgFor(context)
               /\ eval_pc' = "enter"
               /\ UNCHANGED exception
    /\ UNCHANGED <<context, evaluation_functions, training, was_training, is_train,
                   stats_file, wandb_logged, func_pos, ran, warnings, rankVars,
                   statsVars, actsVars, restVars>>

\* lines 95, 42-44: with eval_mode(sae): remember the mode, sae.eval()
EnterEvalMode ==
    /\ eval_pc = "enter"
    /\ is_train' = training
    /\ training' = FALSE
    /\ eval_pc' = "process"
    /\ UNCHANGED <<context, evaluation_cfg, evaluation_functions, was_training,
                   exception, stats_file, wandb_logged, func_pos, ran, warnings,
                   rankVars, statsVars, actsVars, restVars>>

\* line 96: process_dataset runs
ProcessDataset ==
    /\ eval_pc = "process"
    /\ StatsNext

\* line 96: process_dataset returned the statistics
ProcessReturned ==
    /\ eval_pc = "process"
    /\ stats_pc = "returned"
    /\ eval_pc' = NextStep("process")
    /\ UNCHANGED <<context, evaluation_cfg, evaluation_functions, training,
                   was_training, is_train, exception, stats_file, wandb_logged,
                   func_pos, ran, warnings, rankVars, statsVars, actsVars, restVars>>

\* line 96: process_dataset raised (line 209), the with block is left
ProcessRaised ==
    /\ eval_pc = "process"
    /\ stats_pc = "raised"
    /\ exception' = "ZeroDivisionError"
    /\ eval_pc' = "exit"
    /\ UNCHANGED <<context, evaluation_cfg, evaluation_functions, training,
                   was_training, is_train, stats_file, wandb_logged, func_pos, ran,
                   warnings, rankVars, statsVars, actsVars, restVars>>

\* lines 97-98, 242-258: save_stats writes the statistics file; open may fail
\* before anything is written, json.dump after the file was created
SaveStatsFile ==
    /\ eval_pc = "save"
    /\ \E outcome \in {"written", "open_failed", "dump_failed"} :
          CASE outcome = "written" ->
                  /\ stats_file' = stats
                  /\ eval_pc' = NextStep("save")
                  /\ UNCHANGED exception
            [] outcome = "open_failed" ->
                  /\ exception' = "OSError"
                  /\ eval_pc' = "exit"
                  /\ UNCHANGED stats_file
            [] outcome = "dump_failed" ->
                  /\ stats_file' = <<"partial">>
                  /\ exception' = "TypeError"
                  /\ eval_pc' = "exit"
    /\ UNCHANGED <<context, evaluation_cfg, evaluation_functions, training,
                   was_training, is_train, wandb_logged, func_pos, ran, warnings,
                   rankVars, statsVars, actsVars, restVars>>

\* lines 260-265: save_stats hands the metrics to wandb.log
LogMetrics ==
    /\ eval_pc = "log"
    /\ \E ok \in BOOLEAN :
          IF ok
          THEN /\ wandb_logged' = stats
               /\ eval_pc' = NextStep("log")
               /\ UNCHANGED exception
          ELSE /\ exception' = "wandb.Error"
               /\ eval_pc' = "exit"
               /\ UNCHANGED wandb_logged
    /\ UNCHANGED <<context, evaluation_cfg, evaluation_functions, training,
                   was_training, is_train, stats_file, func_pos, ran, warnings,
                   rankVars, statsVars, actsVars, restVars>>

\* lines 100-104: the next name resolves, its function is called and returns
\* or raises
RunFunction ==
    /\ eval_pc = "dispatch"
    /\ func_pos < Len(evaluation_functions)
    /\ Resolves(evaluation_functions[func_pos + 1])
    /\ func_pos' = func_pos + 1
    /\ ran' = Append(ran, func_pos + 1)
    /\ \E ok \in BOOLEAN :
          /\ exception' = IF ok THEN exception ELSE "FunctionError"
          /\ eval_pc' = AfterCall(ok, eval_pc)
    /\ UNCHANGED <<context, evaluation_cfg, evaluation_functions, training,
                   was_training, is_train, stats_file, wandb_logged, warnings,
                   rankVars, statsVars, actsVars, restVars>>

\* lines 100-102, 105-106: the next name does not resolve, a warning is printed
SkipFunction ==
    /\ eval_pc = "dispatch"
    /\ func_pos < Len(evaluation_functions)
    /\ ~Resolves(evaluation_functions[func_pos + 1])
    /\ func_pos' = func_pos + 1
    /\ warnings' = Append(warnings, func_pos + 1)
    /\ UNCHANGED <<context, evaluation_cfg, evaluation_functions, training,
                   was_training, is_train, eval_pc, exception, stats_file,
                   wandb_logged, ran, rankVars, statsVars, actsVars, restVars>>

\* line 100: the list is exhausted, the with block is left
LoopDone ==
    /\ eval_pc = "dispatch"
    /\ func_pos = Len(evaluation_functions)
    /\ eval_pc' = NextStep("dispatch")
    /\ UNCHANGED <<context, evaluation_cfg, evaluation_functions, training,
                   was_training, is_train, exception, stats_file, wandb_logged,
                   func_pos, ran, warnings, rankVars, statsVars, actsVars, restVars>>

\* lines 45-48: the finally clause of eval_mode, then evaluate returns or the
\* exception in flight propagates
ExitEvalMode ==
    /\ eval_pc = "exit"
    /\ training' = Restore(is_train, training)
    /\ eval_pc' = IF exception = "none" THEN "returned" ELSE "raised"
    /\ UNCHANGED <<context, evaluation_cfg, evaluation_functions, was_training,
                   is_train, exception, stats_file, wandb_logged, func_pos, ran,
                   warnings, rankVars, statsVars, actsVars, restVars>>

EvalNext ==
    \/ SetContext \/ EnterEvalMode \/ ProcessDataset \/ ProcessReturned
    \/ ProcessRaised \/ SaveStatsFile \/ LogMetrics \/ RunFunction
    \/ SkipFunction \/ LoopDone \/ ExitEvalMode

SpecEval == EvalInit /\ [][EvalNext]_vars

\* ================================================== ranking pass: claims
IsRetained(e) == \E i \in DOMAIN max_indices : max_indices[i] = e

\* the pairs the last merge had before truncation, and those it dropped
Candidates ==
    {[image |-> unique_all_indices[i], value |-> unique_all_values[i]] :
        i \in DOMAIN unique_all_indices}
Dropped == Candidates \ Retained

\* one-shot reference: the largest value submitted per id ...
Submitted == {[image |-> e, value |-> sub_max[e]] : e \in {x \in Ids : sub_max[x] >= 0}}

\* ... and every way of keeping the K largest of them
ReferenceSets ==
    {R \in SUBSET Submitted :
        /\ Cardinality(R) = MinInt(max_images_per_feature, Cardinality(Submitted))
        /\ \A r \in R : \A d \in Submitted \ R : r.value >= d.value}

\* C1: after every per-batch merge, the first batch included, the number of
\* retained pairs is at most K = max_images_per_feature.
C1_SizeAtMostK == Len(max_indices) <= max_images_per_feature

\* C2: after any sequence of merges the retained set equals the one-shot
\* reference: the maximum value per example id over everything submitted,
\* then the K largest of these (all of them when fewer than K ids were seen).
C2_EqualsOneShot ==
    (observe = "history" /\ ~max_is_none) => Retained \in ReferenceSets

\* C3: the retained set holds at most one entry per example id.
C3_OneEntryPerId ==
    \A i, j \in DOMAIN max_indices : i # j => max_indices[i] # max_indices[j]

\* C3 witness: an id that was submitted more than once (within a batch or
\* across batches) is retained after a merge with the retained tensors.
C3_Witness ==
    /\ merge_kind \in {"topk", "all"}
    /\ \E e \in raised : IsRetained(e)

C6_RaisedValueKept ==
    \A e \in raised : \A i \in DOMAIN max_indices :
        max_indices[i] = e => max_values[i] = sub_max[e]

\* C6 witness: an id raised across or within batches is retained after a merge.
C6_Witness ==
    /\ observe = "history"
    /\ merge_kind \in {"topk", "all"}
    /\ \E e \in raised : IsRetained(e) /\ sub_max[e] > 1

\* C7: a batch that only re-submits retained ids with values not above their
\* retained values leaves the retained set unchanged.
C7_ResubmitNoOp == [][resubmitted' => Retained' = Retained]_vars

\* C8: with K = 2, once the pairs submitted are (0.5, id 1), (0.9, id 2) and
\* (0.7, id 3) (value ranks 1, 3, 2), the retained set is {(0.9, 2), (0.7, 3)}.
C8_Scenario ==
    (/\ observe = "history"
     /\ max_images_per_feature = 2
     /\ raised = {}
     /\ Submitted = ScenarioPairs)
    => Retained = {[image |-> 2, value |-> 3], [image |-> 3, value |-> 2]}

\* ================================================ statistics pass: claims
IotaSeq(n) == [i \in 1..n |-> i]

\* the batch in hand has been added to every accumulator
BatchIngested ==
    /\ total_acts = DigitSum(n_batches)
    /\ total_tokens = total_samples * NumTokens
    /\ all_l0 = IotaSeq(total_samples)
    /\ all_l0_cls = IotaSeq(total_samples)
    /\ all_l0_image = IotaSeq(total_samples)
    /\ all_cosine_similarity = IotaSeq(n_batches)
    /\ total_loss = DigitSum(n_batches)
    /\ total_reconstruction_loss = DigitSum(n_batches)
    /\ total_zero_abl_loss = DigitSum(n_batches)

\* C9: the stop test runs only once a batch is fully ingested; the pass stops
\* after the first batch at whose end total_samples >= max_evaluation_images,
\* goes on to the next batch otherwise, and ends when the data source is
\* exhausted; the loop is left from nowhere else, and a batch is pulled only
\* as the first one or when the batch before it ended below the threshold.
C9_StopAfterWholeBatch ==
    [][/\ stats_pc = "check" => BatchIngested
       /\ (stats_pc = "check" /\ total_samples >= max_evaluation_images)
             => (stats_pc' = "finalize" /\ ended_by' = "break" /\ n_batches' = n_batches)
       /\ (stats_pc = "check" /\ total_samples < max_evaluation_images)
             => stats_pc' = "fetch"
       /\ (stats_pc = "fetch" /\ cursor >= dataset_len)
             => (stats_pc' = "finalize" /\ ended_by' = "exhausted")
       /\ (stats_pc # "finalize" /\ stats_pc' = "finalize")
             => stats_pc \in {"check", "fetch"}
       /\ n_batches' # n_batches
             => /\ stats_pc = "fetch"
                /\ (n_batches = 0 \/ total_samples < max_evaluation_images)
      ]_vars

\* C9 witness: the loop was left by the stop test after at least two batches
\* while the data source still had examples.
C9_Witness ==
    /\ stats_pc = "finalize"
    /\ ended_by = "break"
    /\ n_batches >= 2
    /\ cursor < dataset_len

\* C10: the returned statistics are computed from exactly the batches pulled,
\* the one that reached the threshold included: every batch counted in
\* total_samples is in the loss sums, the L0 lists, the cosine-similarity list
\* and the activation counts, and the sums are divided by the number of
\* samples pulled, not by the size of the dataset.
C10_StatsFromPulledBatches ==
    stats_pc = "returned" =>
        /\ total_samples = cursor
        /\ stats.avg_loss = <<DigitSum(n_batches), cursor>>
        /\ stats.avg_reconstruction_loss = <<DigitSum(n_batches), cursor>>
        /\ stats.avg_zero_abl_loss = <<DigitSum(n_batches), cursor>>
        /\ stats.avg_l0 = NpMean(IotaSeq(cursor))
        /\ stats.avg_l0_cls = NpMean(IotaSeq(cursor))
        /\ stats.avg_l0_image = NpMean(IotaSeq(cursor))
        /\ stats.avg_cos_sim = NpMean(IotaSeq(n_batches))
        /\ stats.log_frequencies_per_token = <<DigitSum(n_batches), cursor * NumTokens>>
        /\ stats.log_frequencies_per_image = <<DigitSum(n_batches), cursor>>

\* C10 witness: statistics returned after an early stop that left part of the
\* dataset unread, the last of several batches having reached the threshold.
C10_Witness ==
    /\ stats_pc = "returned"
    /\ ended_by = "break"
    /\ n_batches >= 2
    /\ total_samples < dataset_len
    /\ total_samples - batch_size < max_evaluation_images

\* C16: total_samples never decreases from one step of the pass to the next
\* and is at every point at most the number of examples in the dataset; it is
\* the number of examples the dataloader has yielded so far.
C16_TotalSamplesBounded ==
    [][/\ total_samples' >= total_samples
       /\ total_samples <= dataset_len
       /\ total_samples' <= dataset_len'
       /\ total_samples' = cursor'
      ]_vars

\* C16 witness: the whole dataset was read, in several batches of which the
\* last was a short one.
C16_Witness ==
    /\ ended_by = "exhausted"
    /\ n_batches >= 2
    /\ batch_size < dl_batch_size
    /\ total_samples = dataset_len

\* 1 + 2 + ... + n: the sum of the mean cosine similarities of batches 1..n
RECURSIVE SumTo(_)
SumTo(n) == IF n = 0 THEN 0 ELSE n + SumTo(n - 1)

\* the same means, each weighted by the size of its batch: every batch but
\* the last one is a full batch
WeightedCosSum == dl_batch_size * SumTo(n_batches - 1) + n_batches * batch_size

\* C17: the reported average cosine similarity is the sum of the per-batch
\* means divided by the number of batches, each batch counting once whatever
\* its size.
C17_CosUnweightedMean ==
    stats_pc = "returned" => stats.avg_cos_sim = <<SumTo(n_batches), n_batches>>

\* C17 witness: statistics returned after a shorter last batch, the reported
\* average differing from the batch-size-weighted mean.
C17_Witness ==
    /\ stats_pc = "returned"
    /\ n_batches >= 2
    /\ batch_size < dl_batch_size
    /\ stats.avg_cos_sim[1] * total_samples # WeightedCosSum * stats.avg_cos_sim[2]

\* ====================================================== evaluate: claims
ValidContexts == {"training", "post-training"}

NothingPersisted == stats_file = <<>> /\ wandb_logged = <<>>

NothingDispatched == func_pos = 0 /\ ran = <<>> /\ warnings = <<>>

\* C11: when the data source yields no batch, process_dataset returns no
\* statistics: it raises when it finalises, and the evaluate call that made it
\* persists no statistics, dispatches no evaluation function and fails with
\* that error.
C11_EmptyDatasetRaises ==
    [][dataset_len = 0 =>
          /\ stats_pc' # "returned"
          /\ stats' = <<>>
          /\ stats_pc' = "raised" => stats_pc \in {"finalize", "raised"}
          /\ stats_pc = "finalize" => stats_pc' = "raised"
          /\ NothingPersisted'
          /\ NothingDispatched'
          /\ eval_pc' # "returned"
          /\ (eval_pc' = "raised" /\ context \in ValidContexts)
                => exception' = "ZeroDivisionError"
      ]_vars

\* C11 witness: an evaluate call over an empty dataset has failed with the
\* error of the finalisation, with evaluation functions configured.
C11_Witness ==
    /\ dataset_len = 0
    /\ eval_pc = "raised"
    /\ stats_pc = "raised"
    /\ exception = "ZeroDivisionError"
    /\ Len(evaluation_functions) > 0

\* C12: a call with a context other than "training" and "post-training" fails
\* at once with the invalid-context error: no batch is pulled, the mode of the
\* SAE is not switched, nothing is persisted, nothing is dispatched and the
\* selected configuration stays what it was; "training" selects the training
\* configuration and "post-training" the post-training one.
C12_InvalidContextFailsAtOnce ==
    [][/\ context \notin ValidContexts =>
             /\ eval_pc = "call"
             /\ eval_pc' = "raised"
             /\ exception' = "ValueError"
             /\ UNCHANGED <<evaluation_cfg, training, statsVars>>
             /\ NothingPersisted'
             /\ NothingDispatched'
       /\ (context = "training" /\ eval_pc = "call")
             => (evaluation_cfg' = "training_eval" /\ eval_pc' = "enter")
       /\ (context = "post-training" /\ eval_pc = "call")
             => (evaluation_cfg' = "post_training_eval" /\ eval_pc' = "enter")
      ]_vars

\* C12 witness: a call with an invalid context has failed on an evaluator
\* that had a configuration selected, a non-empty dataset, functions
\* configured and an SAE in training mode.
C12_Witness ==
    /\ context \notin ValidContexts
    /\ eval_pc = "raised"
    /\ evaluation_cfg = "post_training_eval"
    /\ dataset_len > 0
    /\ Len(evaluation_functions) > 0
    /\ training

\* C13: in every call the batch loop ends, then the statistics are finalised,
\* then the file is written, then the metrics are logged, and only then are
\* the configured functions taken one at a time in list order.
C13_PersistBeforeDispatch ==
    [][/\ stats' # stats => (stats_pc = "finalize" /\ ended_by # "none")
       /\ stats_file' # stats_file =>
             /\ stats_pc = "returned"
             /\ wandb_logged = <<>>
             /\ NothingDispatched
       /\ wandb_logged' # wandb_logged =>
             /\ stats_file = stats
             /\ wandb_logged' = stats
             /\ NothingDispatched
       /\ func_pos' # func_pos =>
             /\ stats_pc = "returned"
             /\ stats_file = stats
             /\ wandb_logged = stats
             /\ func_pos' = func_pos + 1
             /\ ran \o warnings # ran' \o warnings'
       /\ ran' # ran => ran' = Append(ran, func_pos')
       /\ warnings' # warnings => warnings' = Append(warnings, func_pos')
      ]_vars

\* C13 witness: a call returned after several batches, the statistics saved
\* and logged and at least two functions run.
C13_Witness ==
    /\ eval_pc = "returned"
    /\ n_batches >= 2
    /\ stats_file = stats
    /\ wandb_logged = stats
    /\ Len(ran) >= 2

\* the positions of a list of names that hold a name of S, ascending
PositionsOf(list, S) == SelectSeq(IotaSeq(Len(list)), LAMBDA i : list[i] \in S)

C15_ModeRestored ==
    eval_pc \in {"returned", "raised"} => training = was_training

\* C15 witness: a call on an SAE in training mode has ended by an exception
\* of a dispatched function.
C15_Witness ==
    /\ eval_pc = "raised"
    /\ exception = "FunctionError"
    /\ was_training
    /\ training

\* ================================================= L0 statistics: claims
\* C18: for every non-empty sequence of ingested batches the finalised
\* averages satisfy 0 <= avg_l0 <= d_sae and 0 <= avg_l0_cls <= d_sae.
C18_L0WithinFeatureCount ==
    stats_pc = "returned" =>
        /\ stats.avg_l0[2] > 0
        /\ 0 <= stats.avg_l0[1]
        /\ stats.avg_l0[1] <= d_sae * stats.avg_l0[2]
        /\ stats.avg_l0_cls[2] > 0
        /\ 0 <= stats.avg_l0_cls[1]
        /\ stats.avg_l0_cls[1] <= d_sae * stats.avg_l0_cls[2]

\* C18 witness: averages taken over two batches with more than one feature,
\* avg_l0_cls at the upper bound d_sae and avg_l0 at the lower bound 0.
C18_Witness ==
    /\ stats_pc = "returned"
    /\ n_batches >= 2
    /\ d_sae >= 2
    /\ stats.avg_l0_cls[1] = d_sae * stats.avg_l0_cls[2]
    /\ stats.avg_l0[1] = 0

\* the scenario batch was the one batch of the pass
ScenarioIngested == only_scenario /\ n_batches = 1

\* C19 as stated: for the scenario batch the finalised avg_l0_cls is 0.5.
C19_ScenarioClsHalf ==
    (ScenarioIngested /\ stats_pc = "returned")
        => 2 * stats.avg_l0_cls[1] = stats.avg_l0_cls[2]

\* C19 amended: for the scenario batch the finalised avg_l0_cls is 1.0, each
\* of the two class-token rows having exactly one positive feature; 0.5 is
\* the finalised avg_l0 of the batch.
C19_ScenarioClsOne ==
    (ScenarioIngested /\ stats_pc = "returned")
        => /\ stats.avg_l0_cls = <<2, 2>>
           /\ 2 * stats.avg_l0[1] = stats.avg_l0[2]

\* C19 witness: the averages of the scenario batch were taken.
C19_Witness ==
    /\ ScenarioIngested
    /\ stats_pc = "returned"
    /\ Len(all_l0_cls) = 2

\* C20: the per-image L0 of every ingested image is the number of its
\* activations that are > 0, over all its tokens; for the scenario batch the
\* two values are 2 and 2.
C20_ImageL0AllTokens ==
    /\ all_l0_image = positives
    /\ ScenarioIngested => all_l0_image = <<2, 2>>

\* C20 witness: the scenario batch was ingested, three tokens an image.
C20_Witness ==
    /\ ScenarioIngested
    /\ n_tokens = 3
    /\ Len(all_l0_image) = 2

\* ================================================ further claims: passes
\* C25: when the statistics pass ends with max_evaluation_images >= 1, either
\* the data source was exhausted below the threshold and total_samples is the
\* size of the dataset, or the loop was left by the stop test and
\* max_evaluation_images <= total_samples < max_evaluation_images + size of
\* the last batch.
C25_NoWholeBatchOvershoot ==
    (stats_pc \in {"finalize", "returned", "raised"} /\ max_evaluation_images >= 1) =>
        /\ ended_by \in {"exhausted", "break"}
        /\ ended_by = "exhausted" =>
              (total_samples = dataset_len /\ total_samples < max_evaluation_images)
        /\ ended_by = "break" =>
              /\ max_evaluation_images <= total_samples
              /\ total_samples < max_evaluation_images + batch_size

\* C25 witness: the pass was stopped by a batch that took total_samples past
\* the threshold, by less than its size, with data left unread.
C25_Witness ==
    /\ stats_pc = "returned"
    /\ ended_by = "break"
    /\ max_evaluation_images >= 1
    /\ total_samples > max_evaluation_images
    /\ batch_size >= 2
    /\ total_samples < dataset_len

\* C27: when a dispatched evaluation function raises, the error leaves
\* evaluate, no later entry of the list is taken, and the statistics saved
\* and logged before the dispatch stay as they were; a name that does not
\* resolve is the only failure of the dispatch that the loop recovers from.
C27_FunctionErrorPropagates ==
    [][/\ exception = "FunctionError" =>
             /\ eval_pc \in {"exit", "raised"}
             /\ eval_pc' = "raised"
             /\ exception' = "FunctionError"
             /\ stats_file = stats /\ stats_file' = stats_file
             /\ wandb_logged = stats /\ wandb_logged' = wandb_logged
             /\ ran # <<>> /\ ran[Len(ran)] = func_pos
             /\ UNCHANGED <<func_pos, ran, warnings>>
       /\ (eval_pc = "dispatch" /\ exception' # "none") => eval_pc' = "exit"
       /\ (eval_pc = "dispatch" /\ eval_pc' = "dispatch" /\ ran' = ran)
             => /\ warnings' = Append(warnings, func_pos')
                /\ evaluation_functions[func_pos'] \notin Implemented
      ]_vars

\* C27 witness: a call has failed by a function that raised with entries of
\* the list still to come, after an earlier name was skipped.
C27_Witness ==
    /\ eval_pc = "raised"
    /\ exception = "FunctionError"
    /\ func_pos < Len(evaluation_functions)
    /\ warnings # <<>>
    /\ stats_file = stats

\* ========================================= feature sampling: claims
\* the features of bin b
Qualifying(b) == {f \in DOMAIN log_freq_tokens : BinOfLevel(log_freq_tokens[f]) = b}

\* what the last iteration of the sampling loop added to the list of ids
LastSampled(before, after) == SubSeq(after, Len(before) + 1, Len(after))

\* C21: sampling from a bin returns min(samples_per_bin, number of
\* qualifying features) feature ids, all distinct and all of the bin; with
\* fewer qualifying features than asked for it returns exactly the qualifying
\* ones, and nothing for an empty bin.
C21_SampleFromBin ==
    [][bin_idx' = bin_idx + 1 =>
          LET sampled == LastSampled(interesting_features_indices,
                                     interesting_features_indices')
              Q == Qualifying(bin_idx')
          IN  /\ SubSeq(interesting_features_indices', 1,
                        Len(interesting_features_indices))
                    = interesting_features_indices
              /\ Len(sampled) = MinInt(samples_per_bin, Cardinality(Q))
              /\ \A i, j \in DOMAIN sampled : i # j => sampled[i] # sampled[j]
              /\ Range(sampled) \subseteq Q
              /\ Cardinality(Q) <= samples_per_bin => Range(sampled) = Q
              /\ Q = {} => sampled = <<>>
      ]_vars

\* C21 witness: 10 feature ids were asked of a bin of 3 features, after an
\* empty bin.
C21_Witness ==
    /\ samples_per_bin = 10
    /\ bin_idx = 2
    /\ Cardinality(Qualifying(1)) = 0
    /\ Cardinality(Qualifying(2)) = 3
    /\ Len(interesting_features_indices) = 3

\* C22: two runs of the sampling on the same log frequencies, bins and
\* configuration return the same sequence of feature ids.
C22_SampleRepeatable ==
    sample_pc = "repeated" => interesting_features_indices = first_run_indices

\* C24: the lists of sampled ids, values and labels have equal length at all
\* times, and every figure saved for a feature carries the label of the bin
\* of that feature and the log frequency of that feature, one figure per
\* sampled id.
C24_LabelsAligned ==
    /\ Len(interesting_features_values) = Len(interesting_features_indices)
    /\ Len(interesting_features_category) = Len(interesting_features_indices)
    /\ sample_pc = "done" =>
          /\ Len(artifacts) = Len(interesting_features_indices)
          /\ \A i \in DOMAIN artifacts :
                /\ artifacts[i][1] = interesting_features_indices[i]
                /\ artifacts[i][2] = BinTexts[BinOfLevel(log_freq_tokens[artifacts[i][1]])]
                /\ artifacts[i][3] = log_freq_tokens[artifacts[i][1]]

\* C24 witness: figures were saved for features of both bins, two of them in
\* one bin with different log frequencies, sampled in descending id order.
C24_Witness ==
    /\ sample_pc = "done"
    /\ Len(artifacts) >= 3
    /\ \E i, j \in DOMAIN artifacts :
          /\ i < j
          /\ artifacts[i][2] = artifacts[j][2]
          /\ artifacts[i][3] # artifacts[j][3]
          /\ artifacts[i][1] > artifacts[j][1]
    /\ \E i, j \in DOMAIN artifacts : artifacts[i][2] # artifacts[j][2]

\* ============================================== the two passes: claims
\* C23: within one call the ranking loop stops after the same batch as the
\* statistics pass: every example id retained for a feature belongs to a
\* batch the statistics pass ingested, and when the loop is over it has
\* pulled as many examples as the statistics pass.
C23_SameBatchesRanked ==
    /\ \A e \in rank_retained : e <= total_samples
    /\ rank_pc = "done" => rank_cursor = total_samples

\* ============================ find_top_activations_for_neurons: claims
\* the values of a sequence in descending order
RECURSIVE SortDesc(_)
SortDesc(v) ==
    IF v = <<>> THEN <<>>
    ELSE LET m == MaxOf(Range(v))
             i == CHOOSE j \in DOMAIN v : v[j] = m
         IN  <<m>> \o SortDesc(SubSeq(v, 1, i - 1) \o SubSeq(v, i + 1, Len(v)))

\* the retained entries are the top_k largest values processed, each with the
\* id of an image that has that value
TopOfSeen ==
    /\ top_values = SubSeq(SortDesc(seen_values), 1, MinInt(top_k, Len(seen_values)))
    /\ \A i \in DOMAIN top_indices : seen_values[top_indices[i]] = top_values[i]
    /\ \A i, j \in DOMAIN top_indices : i # j => top_indices[i] # top_indices[j]

\* C26: find_top_activations_for_neurons raises no error whatever the batch
\* size, top_k and number of batches; after every batch it retains at most
\* top_k entries, the top_k largest per-image values of the images processed
\* (all of them when fewer were processed); and it stops after the first
\* batch at whose end processed_samples >= max_samples.
C26_TopActivations ==
    /\ top_pc # "error"
    /\ ~top_is_none => (Len(top_values) <= top_k /\ TopOfSeen)
    /\ (top_pc = "loop" /\ processed_samples > 0) => processed_samples < eval_max
    /\ top_pc \in {"return", "returned"} =>
          (processed_samples >= eval_max \/ processed_samples = val_len)

====
